---- MODULE Spec2Model ----
(***************************************************************************)
(* MuBot: outreach safety guardrails and follow-up scheduling.             *)
(*                                                                         *)
(* The model covers SafetyGuardrails (agent/safety.py), the orchestrator   *)
(* JobSearchAgent (agent/core.py), the MemoryManager daily log and         *)
(* heartbeat state (memory/manager.py), the campaign runner                *)
(* (auto_campaign.py) and the Scheduler's delayed send                     *)
(* (tools/scheduler.py).                                                   *)
(*                                                                         *)
(* Time is an integer number of ticks; one tick is the unit in which       *)
(* min_interval_seconds is expressed and SecondsPerDay ticks make one UTC  *)
(* calendar day.  Day 0 is a Monday.                                       *)
(***************************************************************************)
EXTENDS Integers, Sequences, FiniteSets, TLC

\* ------------------------------------------------------------------------
\* Bounds and configuration
\* ------------------------------------------------------------------------

\* Settings.max_daily_emails (configurable, default 20); a small value here.
max_daily_emails == 2

\* Settings.min_email_interval_seconds (configurable, default 300), in ticks.
min_interval_seconds == 1

\* Length of a UTC day in ticks.
SecondsPerDay == 3

\* Last calendar day of the modelled horizon.
MaxDay == 14

\* The clock advances tick by tick up to this instant, and from midnight to
\* midnight at any time.
FineTicks == 3

\* Cap on the number of blocks appended to the daily logs.
MaxLogBlocks == 4

\* Cap on the length of HeartbeatState.scheduled_followups.
MaxTasks == 4

\* Cap on the number of tasks in it appended by JobSearchAgent.schedule_followup.
MaxAgentTasks == 1

\* Cap on the number of e-mails handed to the sender in one day.
MaxSends == 3

\* Span, in days, of the instants the follow-up guardrail is evaluated on.
MaxProbeDays == 6

\* Latest instant of the due-task queries and of the due dates they see.
MaxDueTime == 3

\* Largest number of working days add_working_days is evaluated on.
MaxWorkingDays == 10

\* Largest number of advance_stage calls on stored opportunities.
MaxTransitions == 2

\* Settings.max_followups / OutreachEntry.max_followups default.
max_followups == 3

\* Settings.default_followup_delay_days default.
default_followup_delay_days == 5

\* SafetyGuardrails.can_schedule_followup: minimum days before the first
\* follow-up and before later ones.
MinDaysFirst == 3
MinDaysLater == 5

None == "None"

\* None in a timestamp field.
NoTime == -1

EntryIds == {"e1", "e2"}
Emails == {"a@x", "b@x"}

\* The job row an entry id is drafted from: its company and recipient.
JobCompany == [ e \in EntryIds |-> "acme" ]
JobEmail == "e1" :> "a@x" @@ "e2" :> "b@x"

\* ------------------------------------------------------------------------
\* Time helpers
\* ------------------------------------------------------------------------

\* datetime.strftime("%Y-%m-%d") of an instant: its UTC calendar day.
DateOf(t) == t \div SecondsPerDay

\* timedelta.days of (later - earlier): whole days, rounded down.
DaysBetween(earlier, later) == (later - earlier) \div SecondsPerDay

\* datetime.weekday(): 0 = Monday ... 6 = Sunday.
Weekday(t) == DateOf(t) % 7

\* ------------------------------------------------------------------------
\* SafetyGuardrails (agent/safety.py)
\* ------------------------------------------------------------------------

SafetyCheck(passed, level, violation) ==
    [passed |-> passed, level |-> level, violation |-> violation]

_check_approval(has_approval) ==
    IF ~has_approval
    THEN SafetyCheck(FALSE, "blocking", "missing_approval")
    ELSE SafetyCheck(TRUE, "info", None)

\* stats is the DailyStats returned by MemoryManager.get_daily_stats().
_check_daily_limit(stats) ==
    IF stats.emails_sent >= max_daily_emails
    THEN SafetyCheck(FALSE, "blocking", "daily_limit")
    ELSE SafetyCheck(TRUE, "info", None)

\* Variant: a send exactly min_interval_seconds after the last one is
\* still refused.
_check_rate_limit_le(state, t) ==
    IF state.last_send_timestamp # NoTime
       /\ t - state.last_send_timestamp <= min_interval_seconds
    THEN SafetyCheck(FALSE, "warning", "rate_limit")
    ELSE SafetyCheck(TRUE, "info", None)

\* state is the HeartbeatState, t the value of datetime.utcnow().
_check_rate_limit(state, t) ==
    IF state.last_send_timestamp # NoTime
       /\ t - state.last_send_timestamp < min_interval_seconds
    THEN SafetyCheck(FALSE, "warning", "rate_limit")
    ELSE SafetyCheck(TRUE, "info", None)

\* The details dict of the rate-limit check: empty when it passes.  Instants
\* are whole ticks, so int() leaves the values as they are.
_check_rate_limit_details(state, t) ==
    IF ~_check_rate_limit(state, t).passed
    THEN LET elapsed == t - state.last_send_timestamp IN
         [ elapsed_seconds |-> elapsed,
           minimum_seconds |-> min_interval_seconds,
           wait_seconds |-> min_interval_seconds - elapsed ]
    ELSE << >>

\* history is the CompanyHistory returned by get_company_history().
_check_company_contact(history) ==
    IF history.total_outreach > 0
    THEN SafetyCheck(TRUE, "warning", "duplicate_outreach")
    ELSE SafetyCheck(TRUE, "info", None)

_check_no_contact_list(email) ==
    SafetyCheck(TRUE, "info", None)

\* The first element of seq whose level is the given one, or dflt.
RECURSIVE FirstWith(_, _, _)
FirstWith(seq, level, dflt) ==
    IF seq = <<>> THEN dflt
    ELSE IF Head(seq).level = level THEN Head(seq)
    ELSE FirstWith(Tail(seq), level, dflt)

Failures(checks) == SelectSeq(checks, LAMBDA c : ~c.passed)

\* Variant: the daily limit is evaluated before the approval.
SendChecksDailyFirst(has_explicit_approval, stats, state, t, history, email) ==
    << _check_daily_limit(stats),
       _check_approval(has_explicit_approval),
       _check_rate_limit(state, t),
       _check_company_contact(history),
       _check_no_contact_list(email) >>

\* The battery of checks built by can_send_email, in evaluation order.
SendChecks(has_explicit_approval, stats, state, t, history, email) ==
    << _check_approval(has_explicit_approval),
       _check_daily_limit(stats),
       _check_rate_limit(state, t),
       _check_company_contact(history),
       _check_no_contact_list(email) >>

can_send_email_on(checks) ==
    LET failures == Failures(checks) IN
    IF failures # <<>>
    THEN FirstWith(failures, "blocking",
            FirstWith(failures, "warning", Head(failures)))
    ELSE SafetyCheck(TRUE, "info", None)

\* Variant: the limit is compared with > instead of >=.
can_schedule_followup_gt(followup_count, last_contact_date, t) ==
    IF followup_count > max_followups
    THEN SafetyCheck(FALSE, "blocking", "mass_email_pattern")
    ELSE IF last_contact_date # NoTime
            /\ DaysBetween(last_contact_date, t) <
                 (IF followup_count = 0 THEN MinDaysFirst ELSE MinDaysLater)
    THEN SafetyCheck(FALSE, "warning", "rate_limit")
    ELSE SafetyCheck(TRUE, "info", None)

can_schedule_followup(followup_count, last_contact_date, t) ==
    IF followup_count >= max_followups
    THEN SafetyCheck(FALSE, "blocking", "mass_email_pattern")
    ELSE IF last_contact_date # NoTime
            /\ DaysBetween(last_contact_date, t) <
                 (IF followup_count = 0 THEN MinDaysFirst ELSE MinDaysLater)
    THEN SafetyCheck(FALSE, "warning", "rate_limit")
    ELSE SafetyCheck(TRUE, "info", None)

\* ------------------------------------------------------------------------
\* Entities (memory/models.py)
\* ------------------------------------------------------------------------

\* The body the reasoning engine writes for a job row, as a token sequence.
\* The second one quotes the phrase that get_daily_stats searches for.
JobBody == "e1" :> <<"Hello">> @@ "e2" :> <<"Status", ": ", "sent">>

\* An OutreachEntry; status "none" stands for an id no entry was built for.
NoEntry ==
    [ status |-> "none", company_name |-> None, recipient_email |-> None,
      body |-> <<>>, created_at |-> 0, drafted_at |-> NoTime, sent_at |-> NoTime,
      replied_at |-> NoTime, followup_count |-> 0,
      max_followups |-> max_followups, next_followup_scheduled |-> NoTime ]

\* current_date is a date, or NoTime for None.
HeartbeatState ==
    [ last_send_timestamp |-> NoTime, daily_email_count |-> 0,
      current_date |-> NoTime,
      campaigns_paused |-> FALSE, scheduled_followups |-> <<>> ]

CompanyHistory(company_name) ==
    [ company_name |-> company_name, total_outreach |-> 0,
      do_not_contact |-> FALSE ]

Dates == 0 .. MaxDay

\* ------------------------------------------------------------------------
\* State
\* ------------------------------------------------------------------------

VARIABLES
    now,            \* datetime.utcnow()
    entries,        \* the OutreachEntry objects, by id
    daily_log,      \* memory/YYYY-MM-DD.md bodies, by date, as token sequences
    heartbeat,      \* MemoryManager._heartbeat_state, the loaded state
    heartbeat_file, \* heartbeat-state.json as it is on disk
    write_failed,   \* history: a write of the last operation returned False
    jobs,           \* Scheduler: run_date of the pending send job, by entry id
    outbox,         \* history: the kinds of e-mail the sender accepted
    sent_today,     \* history: number of e-mails the sender accepted today
    followup_entries, \* history: entries built by _send_followup_email
    no_contact_added, \* history: addresses add_to_no_contact_list accepted
    opportunities,  \* JobPipeline._opportunities, by id
    advanced,       \* history: advance_stage calls that found the id, by id
    procs,          \* two processes on one state file, each with its
                    \* own MemoryManager
    ret,            \* the last operation and what it returned
    probe           \* inputs and result of a guardrail evaluation

vars == << now, entries, daily_log, heartbeat, heartbeat_file, write_failed,
           jobs, outbox, sent_today, followup_entries, no_contact_added,
           opportunities, advanced, procs, ret, probe >>

NoProbe == [ fn |-> None, done |-> FALSE ]
NoRet == [ op |-> None, entry |-> None, ok |-> FALSE ]

Ret(op, e, ok) == [ op |-> op, entry |-> e, ok |-> ok ]

\* What the file writes of one operation do: all succeed, the temporary
\* file of the daily log cannot be written, or that of heartbeat-state.json.
StorageOutcomes == { "ok", "log_fails", "heartbeat_fails" }

\* The mutable program state an operation works on, as one value, on a
\* storage whose writes succeed.
World ==
    [ entries |-> entries, daily_log |-> daily_log, heartbeat |-> heartbeat,
      heartbeat_file |-> heartbeat_file,
      jobs |-> jobs, outbox |-> outbox, sent_today |-> sent_today,
      followup_entries |-> followup_entries,
      ret |-> ret, storage |-> "ok", write_failed |-> FALSE ]

\* The same on a storage with the given outcome.
WorldOn(storage) == [ World EXCEPT !.storage = storage ]

Becomes(w) ==
    /\ entries' = w.entries
    /\ daily_log' = w.daily_log
    /\ heartbeat' = w.heartbeat
    /\ heartbeat_file' = w.heartbeat_file
    /\ write_failed' = w.write_failed
    /\ jobs' = w.jobs
    /\ outbox' = w.outbox
    /\ sent_today' = w.sent_today
    /\ followup_entries' = w.followup_entries
    /\ ret' = w.ret

\* ------------------------------------------------------------------------
\* MemoryManager (memory/manager.py) and FileStore (memory/persistence.py)
\* ------------------------------------------------------------------------

\* The markdown block written for an entry.
_format_outreach_entry(entry) ==
    << "## Outreach", "**", "Status", "**", ": ", entry.status >>
      \o entry.body \o << "---" >>

\* FileStore.append_to_markdown: a new file holds the content, an existing
\* one gets a blank line and the content.
append_to_markdown(existing, content) ==
    IF existing = <<>> THEN content ELSE existing \o << "\n\n" >> \o content

\* write_markdown returns False and leaves the file when the write of its
\* temporary file fails.
save_outreach_entry(w, e) ==
    LET entry == w.entries[e]
        date  == DateOf(entry.created_at)
    IN IF w.storage = "log_fails"
       THEN [ w EXCEPT !.write_failed = TRUE ]
       ELSE [ w EXCEPT !.daily_log[date] =
                append_to_markdown(@, _format_outreach_entry(entry)) ]

\* str.count: the number of occurrences of needle in content.
Count(content, needle) ==
    Cardinality({ i \in 1 .. (Len(content) - Len(needle) + 1) :
                    SubSeq(content, i, i + Len(needle) - 1) = needle })

get_daily_stats(w, t) ==
    LET content == w.daily_log[DateOf(t)] IN
    [ date |-> DateOf(t),
      emails_sent |-> Count(content, << "Status", ": ", "sent" >>),
      replies_received |-> Count(content, << "Status", ": ", "replied" >>) ]

get_company_history(w, company_name) == CompanyHistory(company_name)

load_heartbeat_state(w) == w.heartbeat

\* The loaded state is replaced first; write_json returns False and leaves
\* the file when the write of its temporary file fails.
save_heartbeat_state(w, state) ==
    IF w.storage = "heartbeat_fails"
    THEN [ w EXCEPT !.heartbeat = state, !.write_failed = TRUE ]
    ELSE [ w EXCEPT !.heartbeat = state, !.heartbeat_file = state ]

\* Number of blocks in all the daily logs.
LogBlocks(log) ==
    LET n[d \in -1 .. MaxDay] ==
          IF d < 0 THEN 0 ELSE n[d - 1] + Count(log[d], << "## Outreach" >>)
    IN n[MaxDay]

\* MemoryManager.get_pending_followups: the positions of the tasks it
\* returns.
get_pending_followups(w, t) ==
    LET state == load_heartbeat_state(w) IN
    { i \in 1 .. Len(state.scheduled_followups) :
        state.scheduled_followups[i].due_at <= t }

\* SafetyGuardrails.can_send_email against the memory of w at instant t.
can_send_email(w, t, recipient_email, company_name, has_explicit_approval) ==
    can_send_email_on(
        SendChecks(has_explicit_approval, get_daily_stats(w, t),
                   load_heartbeat_state(w), t,
                   get_company_history(w, company_name), recipient_email))

\* ------------------------------------------------------------------------
\* Working days (integrations/google_sheets.py)
\* ------------------------------------------------------------------------

\* Variant: only Sunday is skipped.
RECURSIVE add_working_days_sat(_, _)
add_working_days_sat(start_date, working_days) ==
    IF working_days <= 0 THEN start_date
    ELSE LET current == start_date + SecondsPerDay IN
         IF Weekday(current) < 6
         THEN add_working_days_sat(current, working_days - 1)
         ELSE add_working_days_sat(current, working_days)

RECURSIVE add_working_days(_, _)
add_working_days(start_date, working_days) ==
    IF working_days <= 0 THEN start_date
    ELSE LET current == start_date + SecondsPerDay IN
         IF Weekday(current) < 5
         THEN add_working_days(current, working_days - 1)
         ELSE add_working_days(current, working_days)

\* ------------------------------------------------------------------------
\* JobSearchAgent (agent/core.py)
\* ------------------------------------------------------------------------

\* How the hand-over to Gmail ends: authentication fails, or the call into
\* GmailClient.send_email yields a message id, None, or an exception.  The
\* outcome is an input of the model: which of them occurs depends on the
\* Gmail service and on the attachments handling around the call.
SendResults == { "auth_failed", "id", "none", "raise" }

\* What is remembered of a mail the sender accepted.
Mail(e, to, kind, confirmed, paused) ==
    [ entry_id |-> e, to |-> to, kind |-> kind,
      confirmed |-> confirmed, paused |-> paused ]

\* Variant: the send is recorded in the heartbeat state before the message
\* id is examined.
send_email_eager(w, t, e, approved, confirmed, sent_result) ==
    LET entry == w.entries[e]
        safety_result ==
            can_send_email(w, t, entry.recipient_email, entry.company_name,
                           approved)
    IN
    IF ~safety_result.passed
    THEN [ w EXCEPT !.ret = Ret("send_email", e, FALSE) ]
    ELSE IF ~approved
    THEN [ w EXCEPT !.ret = Ret("send_email", e, FALSE) ]
    ELSE IF sent_result = "auth_failed"
    THEN [ w EXCEPT !.ret = Ret("send_email", e, FALSE) ]
    ELSE IF sent_result = "raise"
    THEN [ w EXCEPT !.ret = Ret("send_email", e, FALSE) ]
    ELSE IF sent_result = "none"
    THEN LET state == load_heartbeat_state(w)
             w1 == save_heartbeat_state(w,
                     [ state EXCEPT !.last_send_timestamp = t,
                                    !.daily_email_count = @ + 1 ])
         IN [ w1 EXCEPT !.ret = Ret("send_email", e, FALSE) ]
    ELSE
      LET w1 == [ w EXCEPT
                    !.outbox = @ \cup { Mail(e, entry.recipient_email,
                                  "initial", confirmed,
                                  w.heartbeat.campaigns_paused) },
                    !.sent_today = @ + 1,
                    !.entries[e].status = "sent",
                    !.entries[e].sent_at = t ]
          w2 == save_outreach_entry(w1, e)
          state == load_heartbeat_state(w2)
          w3 == save_heartbeat_state(w2,
                  [ state EXCEPT !.last_send_timestamp = t,
                                 !.daily_email_count = @ + 1 ])
      IN [ w3 EXCEPT !.ret = Ret("send_email", e, TRUE) ]

\* confirmed records whether the caller obtained the user's confirmation of
\* this send; it does not influence the operation.
send_email(w, t, e, approved, confirmed, sent_result) ==
    LET entry == w.entries[e]
        safety_result ==
            can_send_email(w, t, entry.recipient_email, entry.company_name,
                           approved)
    IN
    IF ~safety_result.passed
    THEN [ w EXCEPT !.ret = Ret("send_email", e, FALSE) ]
    ELSE IF ~approved
    THEN [ w EXCEPT !.ret = Ret("send_email", e, FALSE) ]
    ELSE IF sent_result = "auth_failed"
    THEN [ w EXCEPT !.ret = Ret("send_email", e, FALSE) ]
    ELSE IF sent_result = "raise"
    THEN [ w EXCEPT !.ret = Ret("send_email", e, FALSE) ]
    ELSE IF sent_result = "none"
    THEN [ w EXCEPT !.ret = Ret("send_email", e, FALSE) ]
    ELSE
      LET w1 == [ w EXCEPT
                    !.outbox = @ \cup { Mail(e, entry.recipient_email,
                                  "initial", confirmed,
                                  w.heartbeat.campaigns_paused) },
                    !.sent_today = @ + 1,
                    !.entries[e].status = "sent",
                    !.entries[e].sent_at = t ]
          w2 == save_outreach_entry(w1, e)
          state == load_heartbeat_state(w2)
          w3 == save_heartbeat_state(w2,
                  [ state EXCEPT !.last_send_timestamp = t,
                                 !.daily_email_count = @ + 1 ])
      IN [ w3 EXCEPT !.ret = Ret("send_email", e, TRUE) ]

\* A task dict as appended by JobSearchAgent.schedule_followup: it has no
\* "email", "followup_name" or "sent" key, so the readers' dict.get defaults
\* apply ("" / "Follow-up" / falsy).
AgentTask(e, company, due_at) ==
    [ kind |-> "agent", entry_id |-> e, company |-> company, email |-> "",
      due_at |-> due_at, followup_name |-> "Follow-up", sent |-> FALSE ]

\* A task dict as appended by AutomatedCampaign._schedule_followups.
CampaignTask(e, company, email, due_at, name) ==
    [ kind |-> "campaign", entry_id |-> e, company |-> company,
      email |-> email, due_at |-> due_at, followup_name |-> name,
      sent |-> FALSE ]

schedule_followup(w, t, e, days_delay) ==
    LET entry == w.entries[e]
        delay == IF days_delay = 0 THEN default_followup_delay_days
                 ELSE days_delay
        check == can_schedule_followup(entry.followup_count, entry.sent_at, t)
    IN
    IF ~check.passed
    THEN [ w EXCEPT !.ret = Ret("schedule_followup", e, FALSE) ]
    ELSE
      LET scheduled_time == t + delay * SecondsPerDay
          w1 == [ w EXCEPT !.entries[e].next_followup_scheduled = scheduled_time ]
          state == load_heartbeat_state(w1)
          w2 == save_heartbeat_state(w1,
                  [ state EXCEPT !.scheduled_followups =
                      Append(@, AgentTask(e, entry.company_name, scheduled_time)) ])
      IN [ w2 EXCEPT !.ret = Ret("schedule_followup", e, TRUE) ]

\* Variant: the tasks are filtered by company instead of entry id.
process_response_by_company(w, t, e) ==
    LET w1 == [ w EXCEPT !.entries[e].status = "replied",
                         !.entries[e].replied_at = t,
                         !.entries[e].next_followup_scheduled = NoTime ]
        w2 == save_outreach_entry(w1, e)
        state == load_heartbeat_state(w2)
        w3 == save_heartbeat_state(w2,
                [ state EXCEPT !.scheduled_followups =
                    SelectSeq(@, LAMBDA f :
                        f.company # w.entries[e].company_name) ])
    IN [ w3 EXCEPT !.ret = Ret("process_response", e, TRUE) ]

process_response(w, t, e) ==
    LET w1 == [ w EXCEPT !.entries[e].status = "replied",
                         !.entries[e].replied_at = t,
                         !.entries[e].next_followup_scheduled = NoTime ]
        w2 == save_outreach_entry(w1, e)
        state == load_heartbeat_state(w2)
        w3 == save_heartbeat_state(w2,
                [ state EXCEPT !.scheduled_followups =
                    SelectSeq(@, LAMBDA f : f.entry_id # e) ])
    IN [ w3 EXCEPT !.ret = Ret("process_response", e, TRUE) ]

pause_campaign(w) ==
    LET state == load_heartbeat_state(w) IN
    [ save_heartbeat_state(w, [ state EXCEPT !.campaigns_paused = TRUE ])
        EXCEPT !.ret = Ret("pause_campaign", None, TRUE) ]

resume_campaign(w) ==
    LET state == load_heartbeat_state(w) IN
    [ save_heartbeat_state(w, [ state EXCEPT !.campaigns_paused = FALSE ])
        EXCEPT !.ret = Ret("resume_campaign", None, TRUE) ]

\* JobSearchAgent.draft_email: the entry built by the reasoning engine, the
\* recipient filled in, saved to the daily log.
NewDraft(t, company, email, body) ==
    [ NoEntry EXCEPT !.status = "draft", !.company_name = company,
                     !.recipient_email = email, !.body = body,
                     !.created_at = t, !.drafted_at = t ]

draft_email(w, t, e, company, email, body) ==
    LET w1 == [ w EXCEPT !.entries[e] = NewDraft(t, company, email, body) ]
        w2 == save_outreach_entry(w1, e)
    IN [ w2 EXCEPT !.ret = Ret("draft_email", e, TRUE) ]

\* ------------------------------------------------------------------------
\* AutomatedCampaign (auto_campaign.py)
\* ------------------------------------------------------------------------

\* Variant: the delays are counted in calendar days.
_schedule_followups_calendar(w, t, e, company) ==
    LET draft == w.entries[e]
        followups == << << t + 4 * SecondsPerDay, "Follow-up 1" >>,
                        << t + 8 * SecondsPerDay, "Follow-up 2" >>,
                        << t + 10 * SecondsPerDay, "Follow-up 3" >> >>
        state == load_heartbeat_state(w)
        task(i) == CampaignTask(e, company, draft.recipient_email,
                                followups[i][1], followups[i][2])
    IN save_heartbeat_state(w,
         [ state EXCEPT !.scheduled_followups =
             @ \o << task(1), task(2), task(3) >> ])

_schedule_followups(w, t, e, company) ==
    LET draft == w.entries[e]
        followups == << << add_working_days(t, 4), "Follow-up 1" >>,
                        << add_working_days(t, 8), "Follow-up 2" >>,
                        << add_working_days(t, 10), "Follow-up 3" >> >>
        state == load_heartbeat_state(w)
        task(i) == CampaignTask(e, company, draft.recipient_email,
                                followups[i][1], followups[i][2])
    IN save_heartbeat_state(w,
         [ state EXCEPT !.scheduled_followups =
             @ \o << task(1), task(2), task(3) >> ])

\* answer is what the user types at the "Send to ...?" prompt; in bulk mode
\* no prompt is shown.  jd tells whether the job description is long enough
\* for draft_email_with_jd, whose draft is not saved to the log.
_process_job(w, t, e, company, email, body, jd, bulk, answer, sent_result) ==
    LET drafted == IF jd
                   THEN [ w EXCEPT !.entries[e] = NewDraft(t, company, "", body) ]
                   ELSE draft_email(w, t, e, company, email, body)
        confirm == IF bulk THEN "yes" ELSE answer
    IN
    IF confirm # "yes"
    THEN [ drafted EXCEPT !.ret = Ret("_process_job", e, FALSE) ]
    ELSE
      LET w1 == [ drafted EXCEPT !.entries[e].recipient_email = email ]
          w2 == send_email(w1, t, e, TRUE, ~bulk, sent_result)
      IN IF w2.ret.ok THEN _schedule_followups(w2, t, e, company) ELSE w2

\* What happens to one due task: the user declines at the first prompt
\* ("skip"); the entry is built but the user declines at the second prompt
\* or the send fails ("no_send"); the sender accepts the mail and returns its
\* id string ("sent_str"); or it accepts the mail and returns a mapping with
\* a message_id ("sent_dict").
FollowupOutcomes == { "skip", "no_send", "sent_str", "sent_dict" }

\* '1' in followup_name / '2' in followup_name / else.
FollowupNum(followup_name) ==
    IF followup_name = "Follow-up 1" THEN 1
    ELSE IF followup_name = "Follow-up 2" THEN 2
    ELSE 3

\* Variant: the count is taken one past the follow-up number.
FollowupCountOfPlusOne(followup_num) == followup_num + 1

\* followup_count of the minimal entry built for follow-up generation.
FollowupCountOf(followup_num) == followup_num - 1

\* The mail went out.
FollowupDelivered(outcome) == outcome \in { "sent_str", "sent_dict" }

\* _send_followup_email returned True: result.get('message_id') is truthy.
\* On an id string .get raises, which the handler catches and reports as
\* False.
FollowupSucceeded(outcome) == outcome = "sent_dict"

DueIdx(state, t) ==
    { i \in 1 .. Len(state.scheduled_followups) :
        /\ ~state.scheduled_followups[i].sent
        /\ state.scheduled_followups[i].due_at <= t }

\* The due tasks for which "confirm == 'yes' and email" can hold.
Askable(state, t) ==
    { i \in DueIdx(state, t) : state.scheduled_followups[i].email # "" }

FollowupMails(state, choice) ==
    { Mail(state.scheduled_followups[i].entry_id,
           state.scheduled_followups[i].email, "followup", TRUE,
           state.campaigns_paused) :
        i \in { j \in DOMAIN choice : FollowupDelivered(choice[j]) } }

run_pending_followups(w, t, choice) ==
    LET state == load_heartbeat_state(w)
        tasks == state.scheduled_followups
    IN
    IF DueIdx(state, t) = {}
    THEN [ w EXCEPT !.ret = Ret("run_pending_followups", None, FALSE) ]
    ELSE
      LET built == { [ id |-> tasks[i].entry_id,
                       followup_count |->
                          FollowupCountOf(FollowupNum(tasks[i].followup_name)) ] :
                     i \in { j \in DOMAIN choice : choice[j] # "skip" } }
          marked == [ i \in 1 .. Len(tasks) |->
                        IF i \in DOMAIN choice /\ FollowupSucceeded(choice[i])
                        THEN [ tasks[i] EXCEPT !.sent = TRUE ]
                        ELSE tasks[i] ]
          w1 == [ w EXCEPT
                    !.outbox = @ \cup FollowupMails(state, choice),
                    !.sent_today = @ + Cardinality(
                        { j \in DOMAIN choice : FollowupDelivered(choice[j]) }),
                    !.followup_entries = @ \cup built ]
          w2 == save_heartbeat_state(w1,
                  [ state EXCEPT !.scheduled_followups = marked ])
      IN [ w2 EXCEPT !.ret = Ret("run_pending_followups", None, TRUE) ]

\* ------------------------------------------------------------------------
\* Scheduler (tools/scheduler.py)
\* ------------------------------------------------------------------------

\* The job is added and the status overwritten with the plain string
\* "scheduled"; formatting that entry for the log then raises, so nothing is
\* appended.
schedule_email(w, t, e, send_at) ==
    [ w EXCEPT !.jobs[e] = send_at,
               !.entries[e].status = "scheduled",
               !.ret = Ret("schedule_email", e, FALSE) ]

_execute_email_send(w, t, e, sent_result) ==
    LET w1 == send_email(w, t, e, TRUE, FALSE, sent_result)
    IN [ w1 EXCEPT !.jobs[e] = NoTime ]

\* ------------------------------------------------------------------------
\* JsonStore (memory/persistence.py): heartbeat-state.json
\* ------------------------------------------------------------------------

\* Python values of a datetime-typed field, with their type.
PyNone == [ type |-> "NoneType", t |-> 0 ]
PyDatetime(t) == [ type |-> "datetime", t |-> t ]
PyStr(t) == [ type |-> "str", t |-> t ]

\* A HeartbeatState object; the task dicts hold only strings, numbers and
\* booleans.
PyHeartbeatState(state) ==
    [ state EXCEPT !.last_send_timestamp =
        IF @ = NoTime THEN PyNone ELSE PyDatetime(@) ]

\* json.dump(data, default=str): a datetime is written as its text, None
\* as null.
json_dump(data) ==
    [ data EXCEPT !.last_send_timestamp =
        IF @.type = "datetime" THEN PyStr(@.t) ELSE @ ]

MissingFile == [ kind |-> "missing", data |-> json_dump(PyHeartbeatState(HeartbeatState)) ]

\* write_pydantic: model_dump, then write_json replaces the file.
write_pydantic(model) == [ kind |-> "json", data |-> json_dump(model) ]

\* read_json: None for a missing file or one json.load cannot parse.
read_json(file) ==
    IF file.kind \in { "missing", "unparseable" }
    THEN [ ok |-> FALSE, kind |-> file.kind, data |-> file.data ]
    ELSE [ ok |-> TRUE, kind |-> file.kind, data |-> file.data ]

\* Variant: a datetime field keeps the text read from the file.
model_validate_text(data) == data

\* HeartbeatState.model_validate: the text of a datetime field is parsed,
\* the task dicts are taken as they are.
model_validate(data) ==
    [ data EXCEPT !.last_send_timestamp =
        IF @.type = "str" THEN PyDatetime(@.t) ELSE @ ]

\* read_pydantic: None when read_json gives None or validation fails.
read_pydantic(file) ==
    LET data == read_json(file) IN
    IF ~data.ok \/ data.kind = "invalid"
    THEN [ ok |-> FALSE, model |-> PyHeartbeatState(HeartbeatState) ]
    ELSE [ ok |-> TRUE, model |-> model_validate(data.data) ]

\* Variant: the default state is returned without being written.
load_heartbeat_state_unsaved(file) ==
    LET state == read_pydantic(file) IN
    IF ~state.ok
    THEN [ state |-> PyHeartbeatState(HeartbeatState), file |-> file ]
    ELSE [ state |-> state.model, file |-> file ]

\* MemoryManager.load_heartbeat_state of a manager that has not loaded the
\* state yet: the state read, or a default one, which is then written.
load_heartbeat_state_from(file) ==
    LET state == read_pydantic(file) IN
    IF ~state.ok
    THEN [ state |-> PyHeartbeatState(HeartbeatState),
           file |-> write_pydantic(PyHeartbeatState(HeartbeatState)) ]
    ELSE [ state |-> state.model, file |-> file ]

\* ------------------------------------------------------------------------
\* JobPipeline (pipelines/job_pipeline.py)
\* ------------------------------------------------------------------------

OppIds == { "o1", "o2" }

PipelineStage ==
    { "identified", "researched", "contacted", "applied", "replied",
      "phone_screen", "interview", "final_round", "offer", "negotiating",
      "accepted", "rejected", "declined", "withdrawn" }

\* STAGE_DEFINITIONS[stage]["action"]
StageAction(stage) ==
    CASE stage = "identified" -> "Research company and role"
      [] stage = "researched" -> "Draft personalized outreach"
      [] stage = "contacted" -> "Wait for response, prepare follow-up"
      [] stage = "applied" -> "Track application status"
      [] stage = "replied" -> "Respond promptly, schedule next steps"
      [] stage = "phone_screen" -> "Prepare for screening call"
      [] stage = "interview"
           -> "Prepare for interviews, send thank you notes"
      [] stage = "final_round" -> "Final preparation, references ready"
      [] stage = "offer" -> "Evaluate offer, prepare negotiation"
      [] stage = "negotiating" -> "Finalize negotiation details"
      [] stage = "accepted" -> "Celebrate and prepare for new role"
      [] stage = "rejected" -> "Request feedback, update records"
      [] stage = "declined" -> "Maintain relationship, document learnings"
      [] stage = "withdrawn" -> "Document reason, maintain relationship"

closed_stages == { "accepted", "rejected", "declined", "withdrawn" }

\* An id that is not in _opportunities.
NoOpportunity ==
    [ stage |-> "none", notes |-> <<>>, next_action |-> None,
      is_active |-> TRUE ]

\* A note dict; old and new are None for a note that is not a transition.
Note(old, new, text) == [ old |-> old, new |-> new, text |-> text ]

add_opportunity(opps, id, notes) ==
    [ opps EXCEPT ![id] =
        [ stage |-> "identified",
          notes |-> IF notes # None THEN << Note(None, None, notes) >>
                    ELSE <<>>,
          next_action |-> None,
          is_active |-> TRUE ] ]

\* Variant: next_action is looked up for the stage that is left.
advance_stage_old_action(opps, opp_id, new_stage, notes) ==
    IF opps[opp_id].stage = "none"
    THEN opps
    ELSE LET old_stage == opps[opp_id].stage IN
         [ opps EXCEPT ![opp_id].stage = new_stage,
                       ![opp_id].notes =
                           Append(@, Note(old_stage, new_stage, notes)),
                       ![opp_id].next_action = StageAction(old_stage) ]

advance_stage(opps, opp_id, new_stage, notes) ==
    IF opps[opp_id].stage = "none"
    THEN opps
    ELSE LET old_stage == opps[opp_id].stage IN
         [ opps EXCEPT ![opp_id].stage = new_stage,
                       ![opp_id].notes =
                           Append(@, Note(old_stage, new_stage, notes)),
                       ![opp_id].next_action = StageAction(new_stage) ]

\* The opportunities stored.
Stored(opps) == { o \in OppIds : opps[o].stage # "none" }

get_funnel_stats(opps) ==
    LET total  == Cardinality(Stored(opps))
        active == Cardinality({ o \in Stored(opps) : opps[o].is_active })
    IN [ by_stage |-> [ stage \in PipelineStage |->
                          Cardinality({ o \in Stored(opps) :
                                          opps[o].stage = stage }) ],
         total_opportunities |-> total,
         active |-> active,
         closed |-> total - active ]

\* The processes, and the entry each of them works on.
Procs == { "p1", "p2" }
ProcEntry == [ p1 |-> "e1", p2 |-> "e2" ]

\* A process that has not read the state file: pc is its place in the
\* read-modify-write, state its MemoryManager._heartbeat_state, seen the
\* processes whose write was in the file it read, order its place among
\* the writers (0 before its write).
NoProc ==
    [ pc |-> "start", op |-> None, state |-> HeartbeatState, seen |-> {},
      order |-> 0 ]

RaceOps == { "send_email", "schedule_followup" }

\* The change an operation makes to the state it loaded: send_email counts
\* the send, schedule_followup appends a task.
Modified(state, op, t, e) ==
    IF op = "send_email"
    THEN [ state EXCEPT !.last_send_timestamp = t,
                        !.daily_email_count = @ + 1 ]
    ELSE [ state EXCEPT !.scheduled_followups =
             Append(@, AgentTask(e, JobCompany[e],
                          t + default_followup_delay_days * SecondsPerDay)) ]

\* Variant: the tasks in the file that the state written lacks are kept,
\* and so is a send counted in the file meanwhile.
write_json_merge(file, data) ==
    [ data EXCEPT
        !.scheduled_followups =
            SelectSeq(file.scheduled_followups,
                      LAMBDA f : \A i \in 1 .. Len(data.scheduled_followups) :
                                    data.scheduled_followups[i] # f) \o @,
        !.daily_email_count =
            IF file.daily_email_count >= @ THEN file.daily_email_count + 1
            ELSE @ ]

\* JsonStore.write_json: the file is replaced by the data written.
write_json(file, data) == data

\* A MemoryManager: whether _heartbeat_state is set, its value, and the
\* state file.
Memory(loaded, state, file) ==
    [ loaded |-> loaded, state |-> state, file |-> file ]

\* MemoryManager.load_heartbeat_state: the state held if there is one,
\* otherwise the state read from the file, which is then held.
load_heartbeat_state_of(memory) ==
    IF memory.loaded
    THEN memory
    ELSE LET r == load_heartbeat_state_from(memory.file)
         IN Memory(TRUE, r.state, r.file)

Guardrails ==
    { "can_send_email", "can_schedule_followup", "check_email_content",
      "is_mass_email_pattern" }

\* What a guardrail does to the memory: can_send_email has
\* _check_rate_limit load the heartbeat state (get_daily_stats and
\* get_company_history only read); the other three work on their
\* arguments.
guardrail_memory(fn, memory) ==
    IF fn = "can_send_email"
    THEN load_heartbeat_state_of(memory)
    ELSE memory

\* ------------------------------------------------------------------------
\* Initial state and steps
\* ------------------------------------------------------------------------

Init ==
    /\ now = 0
    /\ entries = [ e \in EntryIds |-> NoEntry ]
    /\ daily_log = [ d \in Dates |-> <<>> ]
    /\ heartbeat = HeartbeatState
    /\ heartbeat_file = HeartbeatState
    /\ write_failed = FALSE
    /\ jobs = [ e \in EntryIds |-> NoTime ]
    /\ outbox = {}
    /\ sent_today = 0
    /\ followup_entries = {}
    /\ no_contact_added = {}
    /\ opportunities = [ o \in OppIds |-> NoOpportunity ]
    /\ advanced = [ o \in OppIds |-> 0 ]
    /\ procs = [ p \in Procs |-> NoProc ]
    /\ ret = NoRet
    /\ probe = NoProbe

\* The caps of the model.
Within(w) ==
    /\ LogBlocks(w.daily_log) <= MaxLogBlocks
    /\ Len(w.heartbeat.scheduled_followups) <= MaxTasks
    /\ Len(SelectSeq(w.heartbeat.scheduled_followups,
                     LAMBDA f : f.kind = "agent")) <= MaxAgentTasks
    /\ w.sent_today <= MaxSends

Step(w) ==
    /\ Within(w)
    /\ Becomes(w)
    /\ UNCHANGED << opportunities, advanced, procs >>
    /\ UNCHANGED << now, no_contact_added, probe >>

Exists(e) == entries[e].status # "none"

Tick ==
    /\ now + 1 <= FineTicks
    /\ now' = now + 1
    /\ sent_today' = IF DateOf(now + 1) = DateOf(now) THEN sent_today ELSE 0
    /\ UNCHANGED << opportunities, advanced, procs >>
    /\ UNCHANGED << entries, daily_log, heartbeat, heartbeat_file,
                    write_failed, jobs, outbox,
                    followup_entries, no_contact_added, ret, probe >>

NextDay ==
    /\ DateOf(now) < MaxDay
    /\ now' = (DateOf(now) + 1) * SecondsPerDay
    /\ sent_today' = 0
    /\ UNCHANGED << opportunities, advanced, procs >>
    /\ UNCHANGED << entries, daily_log, heartbeat, heartbeat_file,
                    write_failed, jobs, outbox,
                    followup_entries, no_contact_added, ret, probe >>

DraftEmail(e) ==
    /\ ~Exists(e)
    /\ Step(draft_email(World, now, e, JobCompany[e], JobEmail[e], JobBody[e]))

\* simple_cli / nlp_interface: the user answers yes to the send prompt.
InteractiveSend(e) ==
    /\ Exists(e)
    /\ \E sent_result \in SendResults :
          Step(send_email(World, now, e, TRUE, TRUE, sent_result))

\* send_email called with its default approved=False.
SendUnapproved(e) ==
    /\ Exists(e)
    /\ Step(send_email(World, now, e, FALSE, FALSE, "id"))

\* One job of run_campaign; without --bulk the user is asked.
CampaignJob(e) ==
    /\ ~Exists(e)
    /\ \E jd \in BOOLEAN, bulk \in BOOLEAN :
       \E answer \in (IF bulk THEN { "yes" } ELSE { "yes", "no", "skip" }) :
       \E sent_result \in (IF answer = "yes" THEN SendResults ELSE { "none" }) :
          Step(_process_job(World, now, e, JobCompany[e], JobEmail[e],
                            JobBody[e], jd, bulk, answer, sent_result))

\* days_delay 0 stands for "not given".
ScheduleFollowup(e) ==
    /\ Exists(e)
    /\ \E days_delay \in { 0, 1 } :
          Step(schedule_followup(World, now, e, days_delay))

\* The user asks for a follow-up of an entry that has none scheduled.
ScheduleFirstFollowup(e) ==
    /\ entries[e].next_followup_scheduled = NoTime
    /\ ScheduleFollowup(e)

ProcessResponse(e) ==
    /\ Exists(e)
    /\ Step(process_response(World, now, e))

\* The interactive send on a storage whose writes may fail.
SendOnStorage(e) ==
    /\ Exists(e)
    /\ \E storage \in StorageOutcomes, sent_result \in SendResults :
          Step(send_email(WorldOn(storage), now, e, TRUE, TRUE, sent_result))

\* process_response on a storage whose writes may fail.
ProcessResponseOnStorage(e) ==
    /\ Exists(e)
    /\ \E storage \in StorageOutcomes :
          Step(process_response(WorldOn(storage), now, e))

\* The frame of a pipeline operation.
PipelineOnly ==
    UNCHANGED << now, entries, daily_log, heartbeat, heartbeat_file,
                 write_failed, jobs, outbox, sent_today, followup_entries,
                 no_contact_added, procs, probe >>

\* uuid4 gives an id that is not in use.
AddOpportunity ==
    /\ Stored(opportunities) # OppIds
    /\ LET id == CHOOSE o \in OppIds \ Stored(opportunities) : TRUE IN
       \E notes \in { None, "n" } :
          /\ opportunities' = add_opportunity(opportunities, id, notes)
          /\ ret' = Ret("add_opportunity", id, TRUE)
    /\ UNCHANGED advanced
    /\ PipelineOnly

RECURSIVE Sum(_, _)
Sum(f, S) ==
    IF S = {} THEN 0
    ELSE LET x == CHOOSE y \in S : TRUE IN f[x] + Sum(f, S \ { x })

Transitions == Sum(advanced, OppIds)

AdvanceStage(opp_id) ==
    /\ \E new_stage \in PipelineStage :
          opportunities' = advance_stage(opportunities, opp_id, new_stage, None)
    /\ IF opp_id \in Stored(opportunities)
       THEN /\ Transitions < MaxTransitions
            /\ advanced' = [ advanced EXCEPT ![opp_id] = @ + 1 ]
            /\ ret' = Ret("advance_stage", opp_id, TRUE)
       ELSE /\ UNCHANGED advanced
            /\ ret' = Ret("advance_stage", opp_id, FALSE)
    /\ PipelineOnly

\* The frame of a step of a process.
RaceOnly ==
    UNCHANGED << now, entries, daily_log, heartbeat, write_failed, jobs,
                 outbox, sent_today, followup_entries, no_contact_added,
                 opportunities, advanced, ret, probe >>

\* A process starts an operation: load_heartbeat_state reads the file.
ProcLoad(p) ==
    /\ procs[p].pc = "start"
    /\ \E op \in RaceOps :
          procs' = [ procs EXCEPT
                       ![p].pc = "loaded",
                       ![p].op = op,
                       ![p].state = heartbeat_file,
                       ![p].seen = { q \in Procs : procs[q].order > 0 } ]
    /\ UNCHANGED heartbeat_file
    /\ RaceOnly

\* The process changes the state it holds and save_heartbeat_state writes
\* it back whole.
ProcWrite(p) ==
    /\ procs[p].pc = "loaded"
    /\ LET state == Modified(procs[p].state, procs[p].op, now, ProcEntry[p])
       IN /\ heartbeat_file' = write_json(heartbeat_file, state)
          /\ procs' = [ procs EXCEPT
                          ![p].pc = "written",
                          ![p].state = state,
                          ![p].order =
                            1 + Cardinality({ q \in Procs :
                                                procs[q].order > 0 }) ]
    /\ RaceOnly

PauseCampaign == Step(pause_campaign(World))

ResumeCampaign == Step(resume_campaign(World))

RunPendingFollowups ==
    \E choice \in [ Askable(heartbeat, now) -> FollowupOutcomes ] :
        Step(run_pending_followups(World, now, choice))

ScheduleEmail(e) ==
    /\ Exists(e)
    /\ Step(schedule_email(World, now, e, now + 1))

ExecuteEmailSend(e) ==
    /\ jobs[e] # NoTime
    /\ now >= jobs[e]
    /\ \E sent_result \in SendResults :
          Step(_execute_email_send(World, now, e, sent_result))

\* SafetyGuardrails.add_to_no_contact_list stores nothing and returns True.
AddToNoContactList(email) ==
    /\ no_contact_added' = no_contact_added \cup { email }
    /\ ret' = Ret("add_to_no_contact_list", None, TRUE)
    /\ UNCHANGED << opportunities, advanced, procs >>
    /\ UNCHANGED << now, entries, daily_log, heartbeat, heartbeat_file,
                    write_failed, jobs, outbox,
                    sent_today, followup_entries, probe >>

\* ------------------------------------------------------------------------
\* The guardrail functions on arbitrary inputs
\* ------------------------------------------------------------------------

\* Instants the guardrail inputs are drawn from.
ProbeTimes == 0 .. (MaxProbeDays * SecondsPerDay)

\* Arguments of can_send_email together with what its checks read from
\* memory: the day's DailyStats, the HeartbeatState and the CompanyHistory.
SendInputs ==
    [ fn : { "can_send_email" }, done : { FALSE },
      has_explicit_approval : BOOLEAN,
      emails_sent : 0 .. (max_daily_emails + 1),
      last_send_timestamp : { NoTime, 0, 1 },
      t : { 1, 2 },
      total_outreach : { 0, 1 },
      do_not_contact : BOOLEAN,
      recipient_email : Emails,
      result : { SafetyCheck(TRUE, "info", None) } ]

\* Arguments of can_schedule_followup.
FollowupInputs ==
    [ fn : { "can_schedule_followup" }, done : { FALSE },
      followup_count : 0 .. (max_followups + 1),
      last_contact_date : { NoTime } \cup ProbeTimes,
      t : ProbeTimes,
      result : { SafetyCheck(TRUE, "info", None) } ]

\* Arguments of add_working_days.
WorkingDaysInputs ==
    [ fn : { "add_working_days" }, done : { FALSE },
      start_date : ProbeTimes,
      working_days : 0 .. MaxWorkingDays,
      result : { NoTime } ]

\* A stored follow-up task and the instant of a due-task query.
DueInputs ==
    [ fn : { "due_query" }, done : { FALSE },
      due_at : 0 .. MaxDueTime,
      sent : BOOLEAN,
      t : 0 .. MaxDueTime,
      result : { [ manager |-> FALSE, campaign |-> FALSE ] } ]

\* The HeartbeatState's last send and the instant of a rate-limit check.
RateInputs ==
    [ fn : { "_check_rate_limit" }, done : { FALSE },
      last_send_timestamp : { NoTime } \cup (0 .. MaxDueTime),
      t : 0 .. MaxDueTime,
      result : { SafetyCheck(TRUE, "info", None) },
      details : { << >> } ]

\* HeartbeatState values as the operations leave them.
HeartbeatStates ==
    [ last_send_timestamp : { NoTime } \cup (0 .. MaxDueTime),
      daily_email_count : 0 .. max_daily_emails,
      current_date : { NoTime },
      campaigns_paused : BOOLEAN,
      scheduled_followups :
        { <<>>, << AgentTask("e1", "acme", 1) >>,
          << CampaignTask("e1", "acme", "a@x", 1, "Follow-up 1"),
             [ CampaignTask("e2", "acme", "b@x", 2, "Follow-up 2")
                 EXCEPT !.sent = TRUE ] >> } ]

\* A state to save and load again.
SaveLoadInputs ==
    [ fn : { "save_load" }, done : { FALSE }, state : HeartbeatStates,
      file : { MissingFile },
      loaded : { PyHeartbeatState(HeartbeatState) } ]

\* Contents of heartbeat-state.json found by a first load.
StateFiles ==
    { [ kind |-> k, data |-> json_dump(PyHeartbeatState(st)) ] :
        k \in { "missing", "unparseable", "invalid", "json" },
        st \in HeartbeatStates }

LoadInputs ==
    [ fn : { "load_heartbeat_state" }, done : { FALSE }, file : StateFiles,
      result : { [ state |-> PyHeartbeatState(HeartbeatState),
                   file |-> MissingFile ] } ]

\* A guardrail and the memory it is called on: a manager that holds the
\* state of its file, or one that has not loaded the file yet.
FrameInputs ==
    { [ fn |-> "guardrail", done |-> FALSE, guardrail |-> m[1],
        memory |-> m[2],
        after |-> Memory(FALSE, PyHeartbeatState(HeartbeatState),
                         MissingFile) ] :
        m \in Guardrails \X
              ({ Memory(TRUE, model_validate(f.data), f) :
                   f \in { x \in StateFiles : x.kind = "json" } }
               \cup { Memory(FALSE, PyHeartbeatState(HeartbeatState), f) :
                        f \in StateFiles }) }

InitGuard ==
    /\ now = 0
    /\ entries = [ e \in EntryIds |-> NoEntry ]
    /\ daily_log = [ d \in Dates |-> <<>> ]
    /\ heartbeat = HeartbeatState
    /\ heartbeat_file = HeartbeatState
    /\ write_failed = FALSE
    /\ jobs = [ e \in EntryIds |-> NoTime ]
    /\ outbox = {}
    /\ sent_today = 0
    /\ followup_entries = {}
    /\ no_contact_added = {}
    /\ opportunities = [ o \in OppIds |-> NoOpportunity ]
    /\ advanced = [ o \in OppIds |-> 0 ]
    /\ procs = [ p \in Procs |-> NoProc ]
    /\ ret = NoRet
    /\ probe \in SendInputs \cup FollowupInputs \cup WorkingDaysInputs
                 \cup DueInputs \cup RateInputs \cup SaveLoadInputs
                 \cup LoadInputs \cup FrameInputs

EvalCanSendEmail ==
    /\ probe.fn = "can_send_email"
    /\ ~probe.done
    /\ probe' =
         [ probe EXCEPT
             !.done = TRUE,
             !.result = can_send_email_on(
                 SendChecks(probe.has_explicit_approval,
                     [ emails_sent |-> probe.emails_sent ],
                     [ HeartbeatState EXCEPT
                         !.last_send_timestamp = probe.last_send_timestamp ],
                     probe.t,
                     [ CompanyHistory("acme") EXCEPT
                         !.total_outreach = probe.total_outreach,
                         !.do_not_contact = probe.do_not_contact ],
                     probe.recipient_email)) ]
    /\ UNCHANGED << opportunities, advanced, procs >>
    /\ UNCHANGED << now, entries, daily_log, heartbeat, heartbeat_file,
                    write_failed, jobs, outbox,
                    sent_today, followup_entries, no_contact_added, ret >>

EvalCanScheduleFollowup ==
    /\ probe.fn = "can_schedule_followup"
    /\ ~probe.done
    /\ probe' =
         [ probe EXCEPT
             !.done = TRUE,
             !.result = can_schedule_followup(probe.followup_count,
                            probe.last_contact_date, probe.t) ]
    /\ UNCHANGED << opportunities, advanced, procs >>
    /\ UNCHANGED << now, entries, daily_log, heartbeat, heartbeat_file,
                    write_failed, jobs, outbox,
                    sent_today, followup_entries, no_contact_added, ret >>

EvalAddWorkingDays ==
    /\ probe.fn = "add_working_days"
    /\ ~probe.done
    /\ probe' =
         [ probe EXCEPT
             !.done = TRUE,
             !.result = add_working_days(probe.start_date, probe.working_days) ]
    /\ UNCHANGED << opportunities, advanced, procs >>
    /\ UNCHANGED << now, entries, daily_log, heartbeat, heartbeat_file,
                    write_failed, jobs, outbox,
                    sent_today, followup_entries, no_contact_added, ret >>

\* Both due-task queries on a heartbeat state holding the one task.
EvalDueQuery ==
    /\ probe.fn = "due_query"
    /\ ~probe.done
    /\ LET task  == [ CampaignTask("e1", "acme", "a@x", probe.due_at,
                                   "Follow-up 1") EXCEPT !.sent = probe.sent ]
           state == [ HeartbeatState EXCEPT !.scheduled_followups = << task >> ]
           w     == [ World EXCEPT !.heartbeat = state ]
       IN probe' =
            [ probe EXCEPT
                !.done = TRUE,
                !.result = [ manager |-> 1 \in get_pending_followups(w, probe.t),
                             campaign |-> 1 \in DueIdx(state, probe.t) ] ]
    /\ UNCHANGED << opportunities, advanced, procs >>
    /\ UNCHANGED << now, entries, daily_log, heartbeat, heartbeat_file,
                    write_failed, jobs, outbox,
                    sent_today, followup_entries, no_contact_added, ret >>

EvalCheckRateLimit ==
    /\ probe.fn = "_check_rate_limit"
    /\ ~probe.done
    /\ LET state == [ HeartbeatState EXCEPT
                        !.last_send_timestamp = probe.last_send_timestamp ]
       IN probe' =
            [ probe EXCEPT
                !.done = TRUE,
                !.result = _check_rate_limit(state, probe.t),
                !.details = _check_rate_limit_details(state, probe.t) ]
    /\ UNCHANGED << opportunities, advanced, procs >>
    /\ UNCHANGED << now, entries, daily_log, heartbeat, heartbeat_file,
                    write_failed, jobs, outbox,
                    sent_today, followup_entries, no_contact_added, ret >>

\* save_heartbeat_state, then load_heartbeat_state by a new MemoryManager.
EvalSaveLoad ==
    /\ probe.fn = "save_load"
    /\ ~probe.done
    /\ LET file == write_pydantic(PyHeartbeatState(probe.state))
       IN probe' = [ probe EXCEPT
                      !.done = TRUE,
                      !.file = file,
                      !.loaded = load_heartbeat_state_from(file).state ]
    /\ UNCHANGED << opportunities, advanced, procs >>
    /\ UNCHANGED << now, entries, daily_log, heartbeat, heartbeat_file,
                    write_failed, jobs, outbox,
                    sent_today, followup_entries, no_contact_added, ret >>

EvalLoadHeartbeatState ==
    /\ probe.fn = "load_heartbeat_state"
    /\ ~probe.done
    /\ probe' = [ probe EXCEPT
                    !.done = TRUE,
                    !.result = load_heartbeat_state_from(probe.file) ]
    /\ UNCHANGED << opportunities, advanced, procs >>
    /\ UNCHANGED << now, entries, daily_log, heartbeat, heartbeat_file,
                    write_failed, jobs, outbox,
                    sent_today, followup_entries, no_contact_added, ret >>

EvalGuardrailFrame ==
    /\ probe.fn = "guardrail"
    /\ ~probe.done
    /\ probe' = [ probe EXCEPT
                    !.done = TRUE,
                    !.after = guardrail_memory(probe.guardrail,
                                               probe.memory) ]
    /\ UNCHANGED << opportunities, advanced, procs >>
    /\ UNCHANGED << now, entries, daily_log, heartbeat, heartbeat_file,
                    write_failed, jobs, outbox,
                    sent_today, followup_entries, no_contact_added, ret >>

NextGuard ==
    \/ EvalCanSendEmail
    \/ EvalCanScheduleFollowup
    \/ EvalAddWorkingDays
    \/ EvalDueQuery
    \/ EvalCheckRateLimit
    \/ EvalSaveLoad
    \/ EvalLoadHeartbeatState
    \/ EvalGuardrailFrame

SpecGuard == InitGuard /\ [][NextGuard]_vars

\* Drafting and sending, tick by tick, and the opt-out list.
Next ==
    \/ Tick
    \/ \E e \in EntryIds : DraftEmail(e)
    \/ \E e \in EntryIds : InteractiveSend(e)
    \/ \E e \in EntryIds : SendUnapproved(e)
    \/ \E email \in Emails : AddToNoContactList(email)

Spec == Init /\ [][Next]_vars

\* Replies and the follow-up queue, at one instant.
NextReplies ==
    \/ \E e \in EntryIds : DraftEmail(e)
    \/ \E e \in EntryIds : CampaignJob(e)
    \/ \E e \in EntryIds : ScheduleFollowup(e)
    \/ \E e \in EntryIds : ProcessResponse(e)

SpecReplies == Init /\ [][NextReplies]_vars

\* The campaign and its follow-ups, from midnight to midnight over
\* MaxDay days.
NextFollowups ==
    \/ NextDay
    \/ CampaignJob("e1")
    \/ ScheduleFirstFollowup("e1")
    \/ RunPendingFollowups

SpecFollowups == Init /\ [][NextFollowups]_vars

\* Pausing and delayed sends around the send of one entry.
NextControls ==
    \/ Tick
    \/ DraftEmail("e1")
    \/ InteractiveSend("e1")
    \/ CampaignJob("e1")
    \/ PauseCampaign
    \/ ResumeCampaign
    \/ ScheduleEmail("e1")
    \/ ExecuteEmailSend("e1")

SpecControls == Init /\ [][NextControls]_vars

\* The opportunities of the pipeline.
NextPipeline ==
    \/ AddOpportunity
    \/ \E o \in OppIds : AdvanceStage(o)

SpecPipeline == Init /\ [][NextPipeline]_vars

\* Two processes updating heartbeat-state.json.
NextRace ==
    \/ Tick
    \/ \E p \in Procs : ProcLoad(p)
    \/ \E p \in Procs : ProcWrite(p)

SpecRace == Init /\ [][NextRace]_vars

\* Sends and replies on a storage whose writes may fail.
NextStorage ==
    \/ Tick
    \/ DraftEmail("e1")
    \/ SendOnStorage("e1")
    \/ ProcessResponseOnStorage("e1")

SpecStorage == Init /\ [][NextStorage]_vars

\* ------------------------------------------------------------------------
\* Properties
\* ------------------------------------------------------------------------

Blocking(violation) == SafetyCheck(FALSE, "blocking", violation)

SendProbed == probe.fn = "can_send_email" /\ probe.done

FollowupProbed == probe.fn = "can_schedule_followup" /\ probe.done

\* C1: whatever the daily count, the last send timestamp, the company
\* history and the recipient, can_send_email without explicit approval
\* returns passed = false, level blocking, violation missing_approval.
C1_UnapprovedIsBlocked ==
    (SendProbed /\ ~probe.has_explicit_approval)
        => probe.result = Blocking("missing_approval")

\* C1 case: no approval while the daily limit is reached and the last send
\* is too recent as well.
C1_Witness ==
    /\ SendProbed
    /\ ~probe.has_explicit_approval
    /\ probe.emails_sent >= max_daily_emails
    /\ probe.last_send_timestamp # NoTime
    /\ probe.t - probe.last_send_timestamp < min_interval_seconds
    /\ probe.result.violation = "missing_approval"

\* C2: every e-mail the sender accepted was confirmed by the user for that
\* send, on the interactive, campaign (bulk included) and scheduled paths.
C2_EverySendConfirmed == \A m \in outbox : m.confirmed

\* The recipient and company a send of entry e would be checked with.
ApprovedCheck(e) ==
    can_send_email(World, now, JobEmail[e], JobCompany[e], TRUE)

RateLimited ==
    /\ heartbeat.last_send_timestamp # NoTime
    /\ now - heartbeat.last_send_timestamp < min_interval_seconds

\* C3: with approval, can_send_email is blocking with daily_limit whenever
\* the number of e-mails sent on the current UTC day is at least
\* max_daily_emails, and passes when that number is below it and no other
\* check fails.
C3_DailyLimitEnforced ==
    \A e \in EntryIds :
        /\ sent_today >= max_daily_emails
              => ApprovedCheck(e) = Blocking("daily_limit")
        /\ (sent_today < max_daily_emails /\ ~RateLimited)
              => ApprovedCheck(e).passed

\* C4: the number of e-mails sent in one UTC day never exceeds
\* max_daily_emails.
C4_AtMostMaxPerDay == sent_today <= max_daily_emails

\* C5: a company history with do_not_contact = true makes can_send_email
\* return passed = false with level blocking, whatever the approval, the
\* daily count and the last send.
C5_DoNotContactBlocks ==
    (SendProbed /\ probe.do_not_contact)
        => (~probe.result.passed /\ probe.result.level = "blocking")

\* C6: once add_to_no_contact_list has returned true for an address, every
\* can_send_email for that recipient is blocking with no_contact_list.
C6_OptOutBlocks ==
    \A email \in no_contact_added :
        can_send_email(World, now, email, "acme", TRUE)
            = Blocking("no_contact_list")

\* C7: no e-mail is accepted by the sender while campaigns are paused.
C7_NoSendWhilePaused == \A m \in outbox : ~m.paused

\* C8: followup_count never exceeds max_followups, for the stored entries
\* and for the entries built to send a follow-up.
C8_FollowupCountBounded ==
    /\ \A e \in EntryIds : entries[e].followup_count <= entries[e].max_followups
    /\ \A f \in followup_entries : f.followup_count <= max_followups

\* C8 case: after a campaign send and a scheduled agent follow-up, the entry
\* for the third follow-up has been built.
C8_Witness ==
    /\ \E f \in followup_entries : f.followup_count = max_followups - 1
    /\ \E m \in outbox : m.kind = "followup"
    /\ \E i \in 1 .. Len(heartbeat.scheduled_followups) :
          heartbeat.scheduled_followups[i].kind = "agent"

\* The minimum number of days since the last contact for this count.
MinDays(followup_count) ==
    IF followup_count = 0 THEN MinDaysFirst ELSE MinDaysLater

\* C9: can_schedule_followup is blocking whenever followup_count >=
\* max_followups, whatever the last contact date, and passes when the count
\* is below max_followups and there is no last contact date or it lies at
\* least the minimum number of days back.
C9_FollowupLimit ==
    FollowupProbed =>
        /\ probe.followup_count >= max_followups
              => (~probe.result.passed /\ probe.result.level = "blocking")
        /\ ( /\ probe.followup_count < max_followups
             /\ \/ probe.last_contact_date = NoTime
                \/ DaysBetween(probe.last_contact_date, probe.t)
                      >= MinDays(probe.followup_count) )
              => probe.result.passed

\* C9 case: the count equals the limit and the last contact is long ago.
C9_Witness ==
    /\ FollowupProbed
    /\ probe.followup_count = max_followups
    /\ probe.last_contact_date # NoTime
    /\ DaysBetween(probe.last_contact_date, probe.t) >= MinDaysLater
    /\ ~probe.result.passed

\* The follow-up tasks of entry e, in queue order.
TasksOf(state, e) ==
    SelectSeq(state.scheduled_followups, LAMBDA f : f.entry_id = e)

\* C10: process_response for an entry removes every follow-up task with that
\* entry id and leaves the tasks of all other entries unchanged.
C10_ReplyCancelsOwnTasks ==
    [][ \A e \in EntryIds :
          ProcessResponse(e) =>
            /\ TasksOf(heartbeat', e) = <<>>
            /\ \A o \in EntryIds \ { e } :
                  TasksOf(heartbeat', o) = TasksOf(heartbeat, o) ]_vars

\* C10 case: e1 was sent by a bulk campaign job, which queued its three
\* follow-ups, and has now been marked replied; the task of e2 is the only
\* one left.
C10_Witness ==
    /\ ret = Ret("process_response", "e1", TRUE)
    /\ \E m \in outbox : m.entry_id = "e1" /\ ~m.confirmed
    /\ TasksOf(heartbeat, "e1") = <<>>
    /\ Len(TasksOf(heartbeat, "e2")) = 1
    /\ Len(heartbeat.scheduled_followups) = 1


\* The number of weekdays (Monday to Friday) among the days after start up
\* to and including result, result lying whole days after start.
WeekdaysIn(start, result) ==
    Cardinality({ d \in 1 .. DaysBetween(start, result) :
                    Weekday(start + d * SecondsPerDay) < 5 })

\* result is start advanced by n working days: a whole number of days
\* later, with n weekdays in between, and not resting on a weekend.
AdvancedBy(start, n, result) ==
    /\ result >= start
    /\ (result - start) % SecondsPerDay = 0
    /\ WeekdaysIn(start, result) = n
    /\ n > 0 => Weekday(result) < 5

\* A step in which a campaign job drafted entry e and its send succeeded,
\* after which the follow-ups are scheduled.
CampaignSent(e) == ~Exists(e) /\ ret' = Ret("send_email", e, TRUE)

\* C11: scheduling follow-ups after a send at instant T appends exactly
\* three tasks for that entry, named Follow-up 1, 2, 3, due at T advanced by
\* 4, 8 and 10 working days, each with sent = FALSE.
C11_ThreeFollowupsScheduled ==
    [][ \A e \in EntryIds :
          CampaignSent(e) =>
            LET old == heartbeat.scheduled_followups
                new == heartbeat'.scheduled_followups
                n   == Len(old)
            IN /\ Len(new) = n + 3
               /\ SubSeq(new, 1, n) = old
               /\ \A i \in 1 .. 3 :
                     /\ new[n + i].entry_id = e
                     /\ ~new[n + i].sent
               /\ new[n + 1].followup_name = "Follow-up 1"
               /\ new[n + 2].followup_name = "Follow-up 2"
               /\ new[n + 3].followup_name = "Follow-up 3"
               /\ AdvancedBy(now, 4, new[n + 1].due_at)
               /\ AdvancedBy(now, 8, new[n + 2].due_at)
               /\ AdvancedBy(now, 10, new[n + 3].due_at) ]_vars

\* C11 case: a campaign send on a Thursday has just queued its three
\* follow-ups, the first one across the weekend.
C11_Witness ==
    /\ ret = Ret("send_email", "e1", TRUE)
    /\ entries["e1"].sent_at = now
    /\ Weekday(now) = 3
    /\ Len(heartbeat.scheduled_followups) = 3
    /\ heartbeat.scheduled_followups[1].due_at = now + 6 * SecondsPerDay

\* C12: for every start date and every N >= 0, the number of weekdays in
\* the interval from start (exclusive) to add_working_days(start, N)
\* (inclusive) equals N.
C12_WorkingDaysCounted ==
    (probe.fn = "add_working_days" /\ probe.done) =>
        /\ probe.result >= probe.start_date
        /\ (probe.result - probe.start_date) % SecondsPerDay = 0
        /\ WeekdaysIn(probe.start_date, probe.result) = probe.working_days

\* C12 case: one working day added to a Friday gives the Monday after.
C12_Witness ==
    /\ probe.fn = "add_working_days"
    /\ probe.done
    /\ Weekday(probe.start_date) = 4
    /\ probe.working_days = 1
    /\ probe.result = probe.start_date + 3 * SecondsPerDay

\* C13: a follow-up task is reported due exactly when its due_at is at or
\* before the current instant and its sent flag is false, by
\* MemoryManager.get_pending_followups and by run_pending_followups alike.
C13_DueExactlyWhenUnsentAndPast ==
    (probe.fn = "due_query" /\ probe.done) =>
        LET due == probe.due_at <= probe.t /\ ~probe.sent IN
        /\ probe.result.manager <=> due
        /\ probe.result.campaign <=> due

\* A step of run_pending_followups.
FollowupRun == ret'.op = "run_pending_followups" /\ now' = now

\* The number of follow-up mails the sender accepted in the step.
DeliveredInStep == sent_today' - sent_today

\* The tasks whose sent flag the step turned to true.
NewlyMarked ==
    { i \in 1 .. Len(heartbeat.scheduled_followups) :
        /\ ~heartbeat.scheduled_followups[i].sent
        /\ heartbeat'.scheduled_followups[i].sent }

\* C14: a run of the due follow-ups marks sent exactly the tasks whose mail
\* went out; tasks skipped, declined or failed stay unsent in the queue,
\* and no task is unmarked.
C14_SentFlagTracksDelivery ==
    [][ FollowupRun =>
          /\ Len(heartbeat'.scheduled_followups)
                = Len(heartbeat.scheduled_followups)
          /\ Cardinality(NewlyMarked) = DeliveredInStep
          /\ \A i \in 1 .. Len(heartbeat.scheduled_followups) :
                heartbeat.scheduled_followups[i].sent
                    => heartbeat'.scheduled_followups[i].sent ]_vars

\* C15: a follow-up mail goes out only when the can-send guardrail passes,
\* and the run then records the send in last_send_timestamp and in the
\* daily e-mail count.
C15_FollowupUsesSendPath ==
    [][ (FollowupRun /\ DeliveredInStep > 0) =>
          /\ ApprovedCheck("e1").passed
          /\ heartbeat'.last_send_timestamp = now
          /\ heartbeat'.daily_email_count
                = heartbeat.daily_email_count + DeliveredInStep ]_vars

\* The verdict on scheduling a follow-up of entry e now.
FollowupCheck(e) ==
    can_schedule_followup(entries[e].followup_count, entries[e].sent_at, now)

\* C16: when the guardrail's only objection is a warning, an approved
\* send_email still sends (the sender accepting the mail) and
\* schedule_followup still enqueues the task.
C16_WarningsDoNotStop ==
    \A e \in EntryIds :
        Exists(e) =>
          /\ ApprovedCheck(e).level = "warning"
                => send_email(World, now, e, TRUE, TRUE, "id").ret.ok
          /\ FollowupCheck(e).level = "warning"
                => schedule_followup(World, now, e, 0).ret.ok

RateProbed == probe.fn = "_check_rate_limit" /\ probe.done

\* A last send exists and less than min_interval_seconds have elapsed.
TooSoon ==
    /\ probe.last_send_timestamp # NoTime
    /\ probe.t - probe.last_send_timestamp < min_interval_seconds

PolicyResult ==
    IF ~probe.has_explicit_approval
    THEN Blocking("missing_approval")
    ELSE IF probe.emails_sent >= max_daily_emails
    THEN Blocking("daily_limit")
    ELSE IF TooSoon
    THEN SafetyCheck(FALSE, "warning", "rate_limit")
    ELSE IF probe.total_outreach > 0
    THEN SafetyCheck(TRUE, "warning", "duplicate_outreach")
    ELSE SafetyCheck(TRUE, "info", None)

\* C18: can_send_email returns the first blocking result of its checks,
\* otherwise the first warning, the company-duplicate warning included,
\* otherwise success.
C18_CompositePolicy == SendProbed => probe.result = PolicyResult

\* A step in which send_email reported failure.
SendFailed == ret'.op = "send_email" /\ ~ret'.ok /\ now' = now

\* C19: a send_email that does not send (guardrail rejection,
\* authentication failure, no message id) reports failure and leaves the
\* entries, the heartbeat state with last_send_timestamp, daily_email_count
\* and the scheduled follow-ups, the daily logs and the outbox unchanged.
C19_FailedSendChangesNothing ==
    [][ SendFailed =>
          /\ entries' = entries
          /\ heartbeat' = heartbeat
          /\ daily_log' = daily_log
          /\ outbox' = outbox
          /\ sent_today' = sent_today ]_vars

\* C19 case: e2 has been sent, and an approved send of the draft e1 after
\* the minimum interval failed at the hand-over, leaving e1 a draft.
C19_Witness ==
    /\ ret = Ret("send_email", "e1", FALSE)
    /\ entries["e1"].status = "draft"
    /\ entries["e1"].sent_at = NoTime
    /\ entries["e2"].status = "sent"
    /\ heartbeat.last_send_timestamp = entries["e2"].sent_at
    /\ heartbeat.daily_email_count = 1
    /\ now > heartbeat.last_send_timestamp

\* A step of an operation one of whose file writes failed.
WriteFailedInStep == write_failed' /\ now' = now

\* C20: when a storage write fails part-way through send_email or
\* process_response, neither the daily logs nor heartbeat-state.json are
\* left modified.
C20_WritesAllOrNothing ==
    [][ WriteFailedInStep =>
          /\ daily_log' = daily_log
          /\ heartbeat_file' = heartbeat_file ]_vars

SaveLoadProbed == probe.fn = "save_load" /\ probe.done

LoadProbed == probe.fn = "load_heartbeat_state" /\ probe.done

\* The file is missing, cannot be parsed, or fails validation.
Unreadable == probe.file.kind \in { "missing", "unparseable", "invalid" }

\* C22: loading the heartbeat state from a missing or corrupt state file
\* yields a HeartbeatState with default values and leaves that default
\* state in the file.
C22_CorruptFileGivesDefaults ==
    (LoadProbed /\ Unreadable) =>
        /\ probe.result.state = PyHeartbeatState(HeartbeatState)
        /\ probe.result.file.kind = "json"
        /\ read_pydantic(probe.result.file).ok
        /\ read_pydantic(probe.result.file).model
              = PyHeartbeatState(HeartbeatState)

\* C22 case: a file that parses but fails validation was loaded.
C22_Witness ==
    /\ LoadProbed
    /\ probe.file.kind = "invalid"
    /\ probe.result.file.kind = "json"

\* The notes of an opportunity that record a stage change.
TransitionNotes(opp) == SelectSeq(opp.notes, LAMBDA n : n.old # None)

\* advance_stage found the opportunity in this step.
AdvancedIn(o) == advanced'[o] = advanced[o] + 1

\* C23: every advance_stage on a stored opportunity, from any stage to any
\* stage, appends exactly one note with the old and the new stage and sets
\* next_action to the action of the new stage in STAGE_DEFINITIONS; after
\* n transitions the opportunity holds exactly n transition notes.
C23_OneNotePerTransition ==
    /\ [](\A o \in OppIds :
            Len(TransitionNotes(opportunities[o])) = advanced[o])
    /\ [][ \A o \in OppIds :
            AdvancedIn(o) =>
              /\ Len(opportunities'[o].notes)
                    = Len(opportunities[o].notes) + 1
              /\ SubSeq(opportunities'[o].notes, 1,
                        Len(opportunities[o].notes))
                    = opportunities[o].notes
              /\ LET note == opportunities'[o].notes[
                                Len(opportunities'[o].notes)]
                 IN /\ note.old = opportunities[o].stage
                    /\ note.new = opportunities'[o].stage
              /\ opportunities'[o].next_action
                    = StageAction(opportunities'[o].stage) ]_vars

\* C23 case: an opportunity added with a note of its own was advanced to
\* offer and back to contacted.
C23_Witness ==
    /\ advanced["o1"] = 2
    /\ Len(opportunities["o1"].notes) = 3
    /\ opportunities["o1"].notes[2].new = "offer"
    /\ opportunities["o1"].notes[3].old = "offer"
    /\ opportunities["o1"].stage = "contacted"
    /\ opportunities["o1"].next_action = StageAction("contacted")

\* The stored opportunities whose stage is closed.
Closed == { o \in Stored(opportunities) :
              opportunities[o].stage \in closed_stages }

\* C24: an opportunity in a closed stage has is_active false, and
\* get_funnel_stats reports closed as the number of opportunities in a
\* closed stage and active as the total minus closed.
C24_ClosedStagesCounted ==
    LET stats == get_funnel_stats(opportunities) IN
    /\ \A o \in Closed : ~opportunities[o].is_active
    /\ stats.closed = Cardinality(Closed)
    /\ stats.active = stats.total_opportunities - Cardinality(Closed)

\* C25: the daily e-mail count starts again from zero when the date
\* changes: in every state daily_email_count is the number of e-mails sent
\* on the current date, which current_date names once a send was counted.
C25_DailyCountResets ==
    /\ heartbeat.daily_email_count = sent_today
    /\ heartbeat.daily_email_count > 0
          => heartbeat.current_date = DateOf(now)

\* C26: an entry whose status is replied has no scheduled follow-up: its
\* next_followup_scheduled is None and no task in scheduled_followups
\* names its id.
C26_RepliedHasNoFollowup ==
    \A e \in EntryIds :
        entries[e].status = "replied" =>
            /\ entries[e].next_followup_scheduled = NoTime
            /\ TasksOf(heartbeat, e) = <<>>

\* The timestamps a and b are in order when both are present.
InOrder(a, b) == (a # NoTime /\ b # NoTime) => a <= b

\* C27: the timeline of every entry is monotonic: drafted_at <= sent_at
\* <= replied_at for every pair of these timestamps that is present.
C27_TimelineMonotonic ==
    \A e \in EntryIds :
        /\ InOrder(entries[e].drafted_at, entries[e].sent_at)
        /\ InOrder(entries[e].sent_at, entries[e].replied_at)
        /\ InOrder(entries[e].drafted_at, entries[e].replied_at)

\* C28: scheduled_followups holds at most max_followups tasks naming any
\* one entry id.
C28_AtMostThreeTasksPerEntry ==
    \A e \in EntryIds : Len(TasksOf(heartbeat, e)) <= max_followups

FrameProbed == probe.fn = "guardrail" /\ probe.done

\* C29: no guardrail check changes anything: can_send_email,
\* can_schedule_followup, check_email_content and is_mass_email_pattern
\* leave the state file as it was, and the heartbeat state held in memory
\* as it was.
C29_ChecksArePureReads ==
    FrameProbed =>
        /\ probe.after.file = probe.memory.file
        /\ probe.memory.loaded => probe.after = probe.memory

\* p wrote first, q wrote last, and q had read the file before p wrote.
Interleaved(p, q) ==
    /\ procs[p].order = 1
    /\ procs[q].order = 2
    /\ p \notin procs[q].seen

\* The update of p is not in the file.
Lost(p, q) ==
    /\ procs[p].op = "send_email" =>
          heartbeat_file.daily_email_count
            = (IF procs[q].op = "send_email" THEN 1 ELSE 0)
    /\ procs[p].op = "schedule_followup" =>
          TasksOf(heartbeat_file, ProcEntry[p]) = <<>>

\* C30: when the read-modify-write operations of two processes on the
\* heartbeat state interleave, the file is exactly the state of the last
\* writer and the update of the earlier writer is lost.
C30_LastWriterWins ==
    \A p \in Procs, q \in Procs :
        Interleaved(p, q) =>
            /\ heartbeat_file = procs[q].state
            /\ Lost(p, q)

\* C30 case: both processes read the file, p1 counted a send and wrote,
\* then p2 counted a send and wrote.
C30_Witness ==
    /\ Interleaved("p1", "p2")
    /\ procs["p1"].op = "send_email"
    /\ procs["p2"].op = "send_email"
    /\ procs["p1"].state.daily_email_count = 1
    /\ heartbeat_file.daily_email_count = 1

====
